---- MODULE Spec2Model ----
(***************************************************************************)
(* A model of the pr-agent MCP server                                      *)
(* (projects/unit3/build-mcp-server/starter/server.py): the three tools    *)
(* analyze_file_changes, get_pr_templates and suggest_template, the two    *)
(* module-level tables they read, and the collaborators they call: the     *)
(* git command line (subprocess.run), the session's root list, the process *)
(* working directory and the template directory.                           *)
(*                                                                         *)
(* Texts whose line structure matters (command output, the diff field) are *)
(* sequences of tokens: a token is either a line break or a piece of line  *)
(* content. A change_type is a sequence of one-character strings, so that  *)
(* lower() and strip() are computed character by character.                *)
(***************************************************************************)
EXTENDS Integers, Sequences, FiniteSets, TLC

VARIABLES
    DEFAULT_TEMPLATES,  \* module table: filename -> label, in declaration order
    TYPE_MAPPING,       \* module table: synonym -> filename
    git_installed,      \* environment: is there a git executable on PATH
    session_root,       \* environment: what the session's root lookup yields
    process_cwd,        \* environment: what os.getcwd() yields
    diff_stdout,        \* environment: raw output of `git diff <base>...HEAD`
    template_files,     \* environment: the template directory
    tool,               \* per call: the tool invoked
    args,               \* per call: the arguments
    pc,                 \* per call: position in the handler
    locals,             \* per call: the handler's local variables
    result,             \* per call: the returned payload
    queries,            \* per call: the subprocess.run calls made, in order
    faults,             \* per call: the steps at which an exception was raised
    roots_asked,        \* per call: was context.session.list_roots() called
    overlapped          \* history: did a call take a step while another was in flight

vars == <<DEFAULT_TEMPLATES, TYPE_MAPPING, git_installed, session_root,
          process_cwd, diff_stdout, template_files, tool, args, pc, locals,
          result, queries, faults, roots_asked, overlapped>>

envVars == <<git_installed, session_root, process_cwd, diff_stdout, template_files>>

tableVars == <<DEFAULT_TEMPLATES, TYPE_MAPPING>>

(***************************************************************************)
(* Bounds of the model.                                                    *)
(***************************************************************************)
\* The longest diff output, in lines.
MaxDiffLines == 3

\* The largest small value of max_diff_lines tried (besides the default).
MaxLimit == 2

\* The most characters of a synonym written in upper case (besides all of them).
MaxUpper == 1

\* The most whitespace characters put on either side of a change_type.
MaxPad == 1

Calls == {1, 2}

(***************************************************************************)
(* Python values.                                                          *)
(***************************************************************************)
\* Python's None, as the value of an Optional[str].
None == "<None>"

\* `x if x else y`: None and the empty string are falsy.
Truthy(s) == s # None /\ s # ""

Min(a, b) == IF a < b THEN a ELSE b

Max(a, b) == IF a > b THEN a ELSE b

\* lines[:n], with Python's meaning of a negative n (count from the end).
Slice(lines, n) ==
    IF n >= 0
    THEN SubSeq(lines, 1, Min(n, Len(lines)))
    ELSE SubSeq(lines, 1, Max(0, Len(lines) + n))

\* The line boundaries str.splitlines() knows that a decoded output can hold.
LineBreaks == {"\n", "\f"}

RECURSIVE SplitFrom(_, _, _)
SplitFrom(text, cur, open) ==
    IF text = <<>>
    THEN IF open THEN <<cur>> ELSE <<>>
    ELSE IF Head(text) \in LineBreaks
         THEN <<cur>> \o SplitFrom(Tail(text), "", FALSE)
         ELSE SplitFrom(Tail(text), cur \o Head(text), TRUE)

\* str.splitlines(): the lines of a text, without their line breaks.
splitlines(text) == SplitFrom(text, "", FALSE)

\* One line as tokens: an empty line has no content token.
Content(line) == IF line = "" THEN <<>> ELSE <<line>>

RECURSIVE join(_, _)
\* sep.join(lines)
join(sep, lines) ==
    IF lines = <<>> THEN <<>>
    ELSE IF Len(lines) = 1 THEN Content(lines[1])
    ELSE Content(Head(lines)) \o <<sep>> \o join(sep, Tail(lines))

\* json.dumps: the payload is a string that encodes the value.
json_dumps(value) == <<"json", value>>

\* json.loads
json_loads(payload) == payload[2]

(***************************************************************************)
(* The module-level tables.                                                *)
(***************************************************************************)
\* DEFAULT_TEMPLATES as written: a dict keeps its insertion order.
DefaultTemplates ==
    << <<"bug.md", "Bug Fix">>,
       <<"feature.md", "Feature">>,
       <<"docs.md", "Documentation">>,
       <<"refactor.md", "Refactor">>,
       <<"test.md", "Test">>,
       <<"performance.md", "Performance">>,
       <<"security.md", "Security">> >>

\* TYPE_MAPPING as written; each key is spelled character by character.
TypeMapping ==
    << << <<"b","u","g">>, "bug.md" >>,
       << <<"f","i","x">>, "bug.md" >>,
       << <<"f","e","a","t","u","r","e">>, "feature.md" >>,
       << <<"e","n","h","a","n","c","e","m","e","n","t">>, "feature.md" >>,
       << <<"d","o","c","s">>, "docs.md" >>,
       << <<"d","o","c","u","m","e","n","t","a","t","i","o","n">>, "docs.md" >>,
       << <<"r","e","f","a","c","t","o","r">>, "refactor.md" >>,
       << <<"c","l","e","a","n","u","p">>, "refactor.md" >>,
       << <<"t","e","s","t">>, "test.md" >>,
       << <<"t","e","s","t","i","n","g">>, "test.md" >>,
       << <<"p","e","r","f","o","r","m","a","n","c","e">>, "performance.md" >>,
       << <<"o","p","t","i","m","i","z","a","t","i","o","n">>, "performance.md" >>,
       << <<"s","e","c","u","r","i","t","y">>, "security.md" >> >>

(***************************************************************************)
(* The environment of analyze_file_changes.                                *)
(***************************************************************************)
\* The directories that hold a git repository, and those that hold none.
\* Every other path does not exist.
Repositories == {"/srv/app", "/workspace/root", "/home/dev/project"}

PlainDirectories == {"/tmp"}

\* The branches the repositories know.
KnownBranches == {"main", "develop"}

\* A byte sequence that is not UTF-8.
UndecodableBytes == "<0xff>"

DiffLine(i) == "+line " \o ToString(i)

\* What git prints for a diff of n lines: each line ends with a newline.
GitText(n) ==
    IF n = 0 THEN <<>>
    ELSE join("\n", [i \in 1..n |-> DiffLine(i)]) \o <<"\n">>

\* The outputs `git diff <base>...HEAD` may have.
DiffOutputs ==
    {GitText(n) : n \in 0..MaxDiffLines}
        \cup { <<"@@ -1 +1 @@", "\n", "\n", "-old">>,
               <<"+a", "\f", "+b", "\n">>,
               <<"+caf", UndecodableBytes, "\n">> }

\* The session's root lookup (mcp.get_context(), session.list_roots(),
\* roots[0].uri.path) raises, or yields a path, which may be None.
LookupFault == "<lookup raises>"

SessionRoots == {LookupFault, None, "/workspace/root"}

\* os.getcwd() raises when the process's directory has been removed.
Unlinked == "<getcwd raises>"

ProcessCwds == {"/home/dev/project", Unlinked}

\* What git prints for the three summary queries: it depends on the
\* subcommand, its option and the range.
SummaryOutput(argv) == <<argv[2] \o " " \o argv[3] \o " " \o argv[4], "\n">>

\* The message of the FileNotFoundError os.getcwd() raises.
GetcwdError == "[Errno 2] No such file or directory"

\* subprocess.run(argv, capture_output=True, text=True, cwd=cwd), without
\* check=True: it raises when the executable or the directory is missing or
\* the output cannot be decoded, and otherwise returns the exit status and
\* the captured output whatever the exit status is.
SubprocessRun(argv, cwd) ==
    LET range == argv[Len(argv)]
        known == \E b \in KnownBranches : range \in {b \o "...HEAD", b \o "..HEAD"}
        out == IF Len(argv) = 3 THEN diff_stdout ELSE SummaryOutput(argv)
    IN  IF ~git_installed
        THEN [raised |-> "[Errno 2] No such file or directory: 'git'",
              returncode |-> 0, stdout |-> <<>>]
        ELSE IF cwd \notin Repositories \cup PlainDirectories
        THEN [raised |-> "[Errno 2] No such file or directory: '" \o cwd \o "'",
              returncode |-> 0, stdout |-> <<>>]
        ELSE IF cwd \in PlainDirectories
        THEN [raised |-> "", returncode |-> 129, stdout |-> <<>>]
        ELSE IF ~known
        THEN [raised |-> "", returncode |-> 128, stdout |-> <<>>]
        ELSE IF \E i \in 1..Len(out) : out[i] = UndecodableBytes
        THEN [raised |-> "'utf-8' codec can't decode byte 0xff",
              returncode |-> 0, stdout |-> <<>>]
        ELSE [raised |-> "", returncode |-> 0, stdout |-> out]

(***************************************************************************)
(* analyze_file_changes.                                                   *)
(***************************************************************************)
BaseBranches == {"main", "develop", "nope"}

\* max_diff_lines: any integer; 500 is the default.
DiffLimits == {-1} \cup (0..MaxLimit) \cup {500}

SuppliedDirectories == {None, "", "/srv/app", "/srv/gone", "/tmp"}

AnalyzeArgs ==
    [base_branch : BaseBranches, include_diff : BOOLEAN,
     max_diff_lines : DiffLimits, working_directory : SuppliedDirectories]

\* A local variable that has not been assigned yet.
Unbound == [raised |-> "", returncode |-> 0, stdout |-> <<>>]

AnalyzeLocals(a) ==
    [working_directory |-> a.working_directory, cwd |-> None,
     files_result |-> Unbound, stat_result |-> Unbound,
     commits_result |-> Unbound,
     diff_content |-> <<>>, truncated |-> FALSE, total_diff_lines |-> 0]

FilesArgv(base_branch) == <<"git", "diff", "--name-status", base_branch \o "...HEAD">>

StatArgv(base_branch) == <<"git", "diff", "--stat", base_branch \o "...HEAD">>

DiffArgv(base_branch) == <<"git", "diff", base_branch \o "...HEAD">>

\* CommitsArgv, were the log asked for the three-dot range as the diffs are.
CommitsArgvThreeDot(base_branch) == <<"git", "log", "--oneline", base_branch \o "...HEAD">>

CommitsArgv(base_branch) == <<"git", "log", "--oneline", base_branch \o "..HEAD">>

\* The notice appended to a truncated diff.
TruncationNotice(max_diff_lines, total_diff_lines) ==
    <<"\n", "\n",
      "... Output truncated. Showing " \o ToString(max_diff_lines) \o " of "
          \o ToString(total_diff_lines) \o " lines ...",
      "\n",
      "... Use max_diff_lines parameter to see more ...">>

\* Lines 104-114: the truncation of the diff output.
TruncateDiff(stdout, max_diff_lines) ==
    LET diff_lines == splitlines(stdout)
        total_diff_lines == Len(diff_lines)
    IN  IF total_diff_lines > max_diff_lines
        THEN [diff_content |-> join("\n", Slice(diff_lines, max_diff_lines))
                                 \o TruncationNotice(max_diff_lines, total_diff_lines),
              truncated |-> TRUE,
              total_diff_lines |-> total_diff_lines]
        ELSE [diff_content |-> stdout,
              truncated |-> FALSE,
              total_diff_lines |-> total_diff_lines]

DiffPlaceholder == <<"Diff not included (set include_diff=true to see full diff)">>

\* Analysis, were the diff field always the local diff_content.
AnalysisWithoutPlaceholder(a, l) ==
    [base_branch |-> a.base_branch,
     files_changed |-> l.files_result.stdout,
     statistics |-> l.stat_result.stdout,
     commits |-> l.commits_result.stdout,
     diff |-> l.diff_content,
     truncated |-> l.truncated,
     total_diff_lines |-> l.total_diff_lines,
     _debug |-> [cwd |-> l.cwd]]

\* Lines 124-133: the analysis record.
Analysis(a, l) ==
    [base_branch |-> a.base_branch,
     files_changed |-> l.files_result.stdout,
     statistics |-> l.stat_result.stdout,
     commits |-> l.commits_result.stdout,
     diff |-> IF a.include_diff THEN l.diff_content ELSE DiffPlaceholder,
     truncated |-> l.truncated,
     total_diff_lines |-> l.total_diff_lines,
     _debug |-> [cwd |-> l.cwd]]

\* A call is in flight once it has taken a step and until it returns.
EntryPoint(t) ==
    CASE t = "analyze_file_changes" -> "resolve"
      [] t = "get_pr_templates" -> "read"
      [] t = "suggest_template" -> "catalog"
      [] OTHER -> "idle"

InFlight(d) == pc[d] \notin {EntryPoint(tool[d]), "done"}

Observe(c) == overlapped' = (overlapped \/ \E d \in Calls \ {c} : InFlight(d))

\* Caught, were the handler to catch less than Exception: the exception
\* leaves the handler and no payload is returned.
CaughtNowhere(c, step, message) ==
    /\ faults' = [faults EXCEPT ![c] = @ \cup {step}]
    /\ pc' = [pc EXCEPT ![c] = "done"]
    /\ UNCHANGED result

\* Line 136-137: the outer handler turns an exception into an error record.
Caught(c, step, message) ==
    /\ result' = [result EXCEPT ![c] = json_dumps([error |-> message])]
    /\ faults' = [faults EXCEPT ![c] = @ \cup {step}]
    /\ pc' = [pc EXCEPT ![c] = "done"]

\* BindWorkingDirectory, were the root found never assigned.
BindNothing(c, path) == locals

\* BindWorkingDirectory, were the resolved directory kept in a module-level
\* variable that every call in flight reads.
BindSharedWorkingDirectory(c, path) ==
    [d \in Calls |->
        IF tool[d] = "analyze_file_changes"
        THEN [locals[d] EXCEPT !.working_directory = path]
        ELSE locals[d]]

\* The local variable working_directory of call c.
BindWorkingDirectory(c, path) == [locals EXCEPT ![c].working_directory = path]

\* Lines 66-73: the session's root is looked up only when no directory was
\* supplied, and a failure of the lookup is passed over.
ResolveWorkingDirectory(c) ==
    /\ tool[c] = "analyze_file_changes"
    /\ pc[c] = "resolve"
    /\ \/ /\ locals[c].working_directory # None
          /\ UNCHANGED <<locals, faults, roots_asked>>
       \/ /\ locals[c].working_directory = None
          /\ roots_asked' = [roots_asked EXCEPT ![c] = TRUE]
          /\ \/ /\ session_root = LookupFault
                /\ faults' = [faults EXCEPT ![c] = @ \cup {"list_roots"}]
                /\ UNCHANGED locals
             \/ /\ session_root # LookupFault
                /\ locals' = BindWorkingDirectory(c, session_root)
                /\ UNCHANGED faults
    /\ pc' = [pc EXCEPT ![c] = "cwd"]
    /\ Observe(c)
    /\ UNCHANGED <<result, queries, tool, args, envVars, tableVars>>

\* Line 75: cwd = working_directory if working_directory else os.getcwd()
GetCwd(c) ==
    /\ tool[c] = "analyze_file_changes"
    /\ pc[c] = "cwd"
    /\ \/ /\ Truthy(locals[c].working_directory)
          /\ locals' = [locals EXCEPT ![c].cwd = locals[c].working_directory]
          /\ pc' = [pc EXCEPT ![c] = "files"]
          /\ UNCHANGED <<result, faults>>
       \/ /\ ~Truthy(locals[c].working_directory)
          /\ process_cwd # Unlinked
          /\ locals' = [locals EXCEPT ![c].cwd = process_cwd]
          /\ pc' = [pc EXCEPT ![c] = "files"]
          /\ UNCHANGED <<result, faults>>
       \/ /\ ~Truthy(locals[c].working_directory)
          /\ process_cwd = Unlinked
          /\ Caught(c, "getcwd", GetcwdError)
          /\ UNCHANGED locals
    /\ Observe(c)
    /\ UNCHANGED <<queries, roots_asked, tool, args, envVars, tableVars>>

\* One subprocess.run of the handler: the command is logged, and its result
\* is bound to a local variable unless it raises.
RunQuery(c, step, argv, variable, next) ==
    LET run == SubprocessRun(argv, locals[c].cwd)
    IN  /\ tool[c] = "analyze_file_changes"
        /\ pc[c] = step
        /\ queries' = [queries EXCEPT ![c] =
                          Append(@, [argv |-> argv, cwd |-> locals[c].cwd, run |-> run])]
        /\ \/ /\ run.raised # ""
              /\ Caught(c, step, run.raised)
              /\ UNCHANGED locals
           \/ /\ run.raised = ""
              /\ locals' = [locals EXCEPT ![c][variable] = run]
              /\ pc' = [pc EXCEPT ![c] = next]
              /\ UNCHANGED <<result, faults>>
        /\ Observe(c)
        /\ UNCHANGED <<roots_asked, tool, args, envVars, tableVars>>

\* Lines 78-83
RunFiles(c) ==
    RunQuery(c, "files", FilesArgv(args[c].base_branch), "files_result", "stat")

\* Lines 86-91
RunStat(c) ==
    RunQuery(c, "stat", StatArgv(args[c].base_branch), "stat_result", "diff")

\* Lines 94-114: the full diff is asked for only when include_diff is set.
RunDiff(c) ==
    LET argv == DiffArgv(args[c].base_branch)
        run == SubprocessRun(argv, locals[c].cwd)
        cut == TruncateDiff(run.stdout, args[c].max_diff_lines)
    IN  /\ tool[c] = "analyze_file_changes"
        /\ pc[c] = "diff"
        /\ \/ /\ ~args[c].include_diff
              /\ pc' = [pc EXCEPT ![c] = "commits"]
              /\ UNCHANGED <<locals, queries, result, faults>>
           \/ /\ args[c].include_diff
              /\ queries' = [queries EXCEPT ![c] =
                      Append(@, [argv |-> argv, cwd |-> locals[c].cwd, run |-> run])]
              /\ \/ /\ run.raised # ""
                    /\ Caught(c, "diff", run.raised)
                    /\ UNCHANGED locals
                 \/ /\ run.raised = ""
                    /\ locals' = [locals EXCEPT
                                    ![c].diff_content = cut.diff_content,
                                    ![c].truncated = cut.truncated,
                                    ![c].total_diff_lines = cut.total_diff_lines]
                    /\ pc' = [pc EXCEPT ![c] = "commits"]
                    /\ UNCHANGED <<result, faults>>
        /\ Observe(c)
        /\ UNCHANGED <<roots_asked, tool, args, envVars, tableVars>>

\* Lines 117-122
RunCommits(c) ==
    RunQuery(c, "commits", CommitsArgv(args[c].base_branch), "commits_result", "assemble")

\* Lines 124-135
Assemble(c) ==
    /\ tool[c] = "analyze_file_changes"
    /\ pc[c] = "assemble"
    /\ result' = [result EXCEPT ![c] = json_dumps(Analysis(args[c], locals[c]))]
    /\ pc' = [pc EXCEPT ![c] = "done"]
    /\ Observe(c)
    /\ UNCHANGED <<locals, queries, faults, roots_asked, tool, args, envVars, tableVars>>

AnalyzeStep(c) ==
    \/ ResolveWorkingDirectory(c)
    \/ GetCwd(c)
    \/ RunFiles(c)
    \/ RunStat(c)
    \/ RunDiff(c)
    \/ RunCommits(c)
    \/ Assemble(c)

(***************************************************************************)
(* Strings of characters: str.lower() and str.strip().                      *)
(***************************************************************************)
UpperCase ==
    <<"A","B","C","D","E","F","G","H","I","J","K","L","M",
      "N","O","P","Q","R","S","T","U","V","W","X","Y","Z">>

LowerCase ==
    <<"a","b","c","d","e","f","g","h","i","j","k","l","m",
      "n","o","p","q","r","s","t","u","v","w","x","y","z">>

\* The whitespace characters str.strip() removes, among those of the model.
Whitespace == {" ", "\t", "\n", "\r", "\f"}

LowerChar(ch) ==
    IF \E i \in 1..Len(UpperCase) : UpperCase[i] = ch
    THEN LowerCase[CHOOSE i \in 1..Len(UpperCase) : UpperCase[i] = ch]
    ELSE ch

\* str.lower()
lower(s) == [i \in 1..Len(s) |-> LowerChar(s[i])]

RECURSIVE lstrip(_)
lstrip(s) ==
    IF s # <<>> /\ Head(s) \in Whitespace THEN lstrip(Tail(s)) ELSE s

RECURSIVE rstrip(_)
rstrip(s) ==
    IF s # <<>> /\ s[Len(s)] \in Whitespace
    THEN rstrip(SubSeq(s, 1, Len(s) - 1))
    ELSE s

\* str.strip()
strip(s) == rstrip(lstrip(s))

\* dict.get(key, default) on a dict written as its items.
Get(items, key, default) ==
    IF \E i \in 1..Len(items) : items[i][1] = key
    THEN items[CHOOSE i \in 1..Len(items) : items[i][1] = key][2]
    ELSE default

(***************************************************************************)
(* get_pr_templates and suggest_template.                                  *)
(***************************************************************************)
\* A template file that cannot be read (missing, no permission, not UTF-8).
Unreadable == "<read_text raises>"

Filenames == {DefaultTemplates[i][1] : i \in 1..Len(DefaultTemplates)}

TemplateText(filename) == "## " \o filename \o " checklist"

\* The states of the template directory: each file is readable or not.
TemplateStorages ==
    {[f \in Filenames |-> IF f \in missing THEN Unreadable ELSE TemplateText(f)] :
        missing \in SUBSET Filenames}

\* Lines 145-149: the content of a template, empty when the read raises.
ReadContent(filename) ==
    IF template_files[filename] = Unreadable THEN "" ELSE template_files[filename]

\* ListTemplates, were an unreadable template skipped (`continue` in the
\* except branch).
ListReadableTemplates ==
    LET all == [i \in 1..Len(DEFAULT_TEMPLATES) |->
                   [filename |-> DEFAULT_TEMPLATES[i][1],
                    type |-> DEFAULT_TEMPLATES[i][2],
                    content |-> ReadContent(DEFAULT_TEMPLATES[i][1])]]
        Readable(t) == template_files[t.filename] # Unreadable
    IN  SelectSeq(all, Readable)

\* Lines 143-156: one entry per item of DEFAULT_TEMPLATES, in its order.
ListTemplates ==
    [i \in 1..Len(DEFAULT_TEMPLATES) |->
        [filename |-> DEFAULT_TEMPLATES[i][1],
         type |-> DEFAULT_TEMPLATES[i][2],
         content |-> ReadContent(DEFAULT_TEMPLATES[i][1])]]

\* Lines 141-157
GetPrTemplates(c) ==
    /\ tool[c] = "get_pr_templates"
    /\ pc[c] = "read"
    /\ result' = [result EXCEPT ![c] = json_dumps(ListTemplates)]
    /\ pc' = [pc EXCEPT ![c] = "done"]
    /\ Observe(c)
    /\ UNCHANGED <<locals, queries, faults, roots_asked, tool, args, envVars, tableVars>>

\* Classify, were strip() left out.
ClassifyUnstripped(change_type) == Get(TYPE_MAPPING, lower(change_type), "feature.md")

\* Line 170: TYPE_MAPPING.get(change_type.lower().strip(), "feature.md")
Classify(change_type) == Get(TYPE_MAPPING, strip(lower(change_type)), "feature.md")

\* SelectTemplate, were the fallback always taken.
SelectFirst(templates, template_file) == templates[1]

\* Lines 171-174: the first entry with the filename, else the first entry.
SelectTemplate(templates, template_file) ==
    IF \E i \in 1..Len(templates) : templates[i].filename = template_file
    THEN templates[CHOOSE i \in 1..Len(templates) :
                      /\ templates[i].filename = template_file
                      /\ \A j \in 1..(i - 1) : templates[j].filename # template_file]
    ELSE templates[1]

\* Lines 176-181; the reasoning is the f-string's pieces in order.
Suggestion(a, selected_template) ==
    [recommended_template |-> selected_template,
     reasoning |-> <<"Based on your analysis: '", a.changes_summary,
                     "', this appears to be a ", a.change_type, " change.">>,
     template_content |-> selected_template.content,
     usage_hint |-> "Claude can help you fill out this template based on the specific changes in your PR."]

SuggestLocals == [templates |-> <<>>, template_file |-> ""]

\* Line 168: templates = json.loads(await get_pr_templates())
SuggestCatalog(c) ==
    /\ tool[c] = "suggest_template"
    /\ pc[c] = "catalog"
    /\ locals' = [locals EXCEPT ![c].templates = json_loads(json_dumps(ListTemplates))]
    /\ pc' = [pc EXCEPT ![c] = "select"]
    /\ Observe(c)
    /\ UNCHANGED <<result, queries, faults, roots_asked, tool, args, envVars, tableVars>>

\* Lines 170-183
SuggestSelect(c) ==
    LET template_file == Classify(args[c].change_type)
        selected_template == SelectTemplate(locals[c].templates, template_file)
    IN  /\ tool[c] = "suggest_template"
        /\ pc[c] = "select"
        /\ locals' = [locals EXCEPT ![c].template_file = template_file]
        /\ result' = [result EXCEPT ![c] =
                         json_dumps(Suggestion(args[c], selected_template))]
        /\ pc' = [pc EXCEPT ![c] = "done"]
        /\ Observe(c)
        /\ UNCHANGED <<queries, faults, roots_asked, tool, args, envVars, tableVars>>

TemplateStep(c) ==
    \/ GetPrTemplates(c)
    \/ SuggestCatalog(c)
    \/ SuggestSelect(c)

(***************************************************************************)
(* The change_type strings tried.                                          *)
(***************************************************************************)
UpperChar(ch) ==
    IF \E i \in 1..Len(LowerCase) : LowerCase[i] = ch
    THEN UpperCase[CHOOSE i \in 1..Len(LowerCase) : LowerCase[i] = ch]
    ELSE ch

\* The synonym k with the characters at the positions in U in upper case.
Cased(k, U) == [i \in 1..Len(k) |-> IF i \in U THEN UpperChar(k[i]) ELSE k[i]]

UpperChoices(k) ==
    {U \in SUBSET (1..Len(k)) : Cardinality(U) <= MaxUpper} \cup {1..Len(k)}

PadChars == {" ", "\t"}

Pads == UNION {[1..n -> PadChars] : n \in 0..MaxPad}

Synonyms == {TypeMapping[i][1] : i \in 1..Len(TypeMapping)}

SynonymInputs ==
    UNION {{l \o Cased(k, U) \o r : U \in UpperChoices(k), l \in Pads, r \in Pads} :
              k \in Synonyms}

OtherInputs ==
    { <<>>, <<" ">>,
      <<"c","h","o","r","e">>,
      <<"b","u","g","s">>,
      <<"B","u","g"," ","f","i","x">>,
      <<"f"," ","i","x">>,
      <<"h","o","t","-","f","i","x">>,
      <<"F","E","A","T">>,
      <<"\t","d","o","c","\n">> }

ChangeTypes == SynonymInputs \cup OtherInputs

Summaries == {"adds caching layer", ""}

SuggestArgs == [changes_summary : Summaries, change_type : ChangeTypes]

\* The directory states tried with suggest_template.
SuggestStorages ==
    {s \in TemplateStorages :
        {f \in Filenames : s[f] = Unreadable} \in {{}, {"feature.md"}}}

\* The value of result before the handler returns.
Pending == <<"json", [pending |-> TRUE]>>

\* A slot in which no tool is invoked.
NoCall == [tool |-> "none"]

InitTables ==
    /\ DEFAULT_TEMPLATES = DefaultTemplates
    /\ TYPE_MAPPING = TypeMapping

InitCalls ==
    /\ pc = [c \in Calls |-> EntryPoint(tool[c])]
    /\ result = [c \in Calls |-> Pending]
    /\ queries = [c \in Calls |-> <<>>]
    /\ faults = [c \in Calls |-> {}]
    /\ roots_asked = [c \in Calls |-> FALSE]
    /\ overlapped = FALSE

\* A slot's tool, arguments and locals.
Slot(t, a) ==
    [tool |-> t, args |-> a,
     locals |-> CASE t = "analyze_file_changes" -> AnalyzeLocals(a)
                  [] t = "suggest_template" -> SuggestLocals
                  [] OTHER -> NoCall]

Idle == Slot("none", NoCall)

InitSlots(slots) ==
    /\ tool = [c \in Calls |-> slots[c].tool]
    /\ args = [c \in Calls |-> slots[c].args]
    /\ locals = [c \in Calls |-> slots[c].locals]

\* One analyze_file_changes call, in every environment.
InitAnalyze ==
    /\ InitTables
    /\ git_installed \in BOOLEAN
    /\ session_root \in SessionRoots
    /\ process_cwd \in ProcessCwds
    /\ diff_stdout \in DiffOutputs
    /\ template_files \in {s \in TemplateStorages : \A f \in Filenames : s[f] # Unreadable}
    /\ \E a \in AnalyzeArgs : InitSlots(<<Slot("analyze_file_changes", a), Idle>>)
    /\ InitCalls

NextAnalyze == \E c \in Calls : AnalyzeStep(c)

SpecAnalyze == InitAnalyze /\ [][NextAnalyze]_vars

\* One get_pr_templates call in every state of the template directory, or
\* one suggest_template call for every change_type tried.
InitTemplates ==
    /\ InitTables
    /\ git_installed = TRUE
    /\ session_root = None
    /\ process_cwd = "/home/dev/project"
    /\ diff_stdout = <<>>
    /\ \/ /\ template_files \in TemplateStorages
          /\ InitSlots(<<Slot("get_pr_templates", NoCall), Idle>>)
       \/ /\ template_files \in SuggestStorages
          /\ \E a \in SuggestArgs : InitSlots(<<Slot("suggest_template", a), Idle>>)
    /\ InitCalls

NextTemplates == \E c \in Calls : TemplateStep(c)

SpecTemplates == InitTemplates /\ [][NextTemplates]_vars

(***************************************************************************)
(* The handlers as functions of their arguments and the environment: what  *)
(* a call returns when it is the only one running.                         *)
(***************************************************************************)
ErrorPayload(message) == json_dumps([error |-> message])

\* Lines 65-137, run from the first line to the return.
AnalyzeAlone(a) ==
    LET working_directory ==
            IF a.working_directory # None THEN a.working_directory
            ELSE IF session_root = LookupFault THEN None
            ELSE session_root
        cwd == IF Truthy(working_directory) THEN working_directory ELSE process_cwd
        files_result == SubprocessRun(FilesArgv(a.base_branch), cwd)
        stat_result == SubprocessRun(StatArgv(a.base_branch), cwd)
        diff_result == SubprocessRun(DiffArgv(a.base_branch), cwd)
        commits_result == SubprocessRun(CommitsArgv(a.base_branch), cwd)
        cut == IF a.include_diff
               THEN TruncateDiff(diff_result.stdout, a.max_diff_lines)
               ELSE [diff_content |-> <<>>, truncated |-> FALSE, total_diff_lines |-> 0]
    IN  IF cwd = Unlinked THEN ErrorPayload(GetcwdError)
        ELSE IF files_result.raised # "" THEN ErrorPayload(files_result.raised)
        ELSE IF stat_result.raised # "" THEN ErrorPayload(stat_result.raised)
        ELSE IF a.include_diff /\ diff_result.raised # ""
             THEN ErrorPayload(diff_result.raised)
        ELSE IF commits_result.raised # "" THEN ErrorPayload(commits_result.raised)
        ELSE json_dumps(Analysis(a,
                [cwd |-> cwd, files_result |-> files_result,
                 stat_result |-> stat_result, commits_result |-> commits_result,
                 diff_content |-> cut.diff_content, truncated |-> cut.truncated,
                 total_diff_lines |-> cut.total_diff_lines]))

\* Lines 168-183, run from the first line to the return.
SuggestAlone(a) ==
    json_dumps(Suggestion(a,
        SelectTemplate(json_loads(json_dumps(ListTemplates)), Classify(a.change_type))))

RunAlone(t, a) ==
    CASE t = "analyze_file_changes" -> AnalyzeAlone(a)
      [] t = "get_pr_templates" -> json_dumps(ListTemplates)
      [] t = "suggest_template" -> SuggestAlone(a)

(***************************************************************************)
(* The server: two calls in flight at once, each of any tool.              *)
(***************************************************************************)
ConcurrentSlots ==
    {Slot("analyze_file_changes", a) :
        a \in [base_branch : {"main"}, include_diff : BOOLEAN,
               max_diff_lines : {MaxLimit, 500},
               working_directory : {None, "/srv/app"}]}
    \cup {Slot("get_pr_templates", NoCall)}
    \cup {Slot("suggest_template", a) :
            a \in [changes_summary : {"adds caching layer"},
                   change_type : { <<"F","i","x"," ">>, <<"c","h","o","r","e">> }]}

Init ==
    /\ InitTables
    /\ git_installed \in BOOLEAN
    /\ session_root \in {LookupFault, "/workspace/root"}
    /\ process_cwd = "/home/dev/project"
    /\ diff_stdout = GitText(MaxDiffLines)
    /\ template_files \in SuggestStorages
    /\ \E first \in ConcurrentSlots, second \in ConcurrentSlots :
          InitSlots(<<first, second>>)
    /\ InitCalls

Next == \E c \in Calls : AnalyzeStep(c) \/ TemplateStep(c)

Spec == Init /\ [][Next]_vars

(***************************************************************************)
(* What a caller sees of a call.                                           *)
(***************************************************************************)
AnalyzeCalls == {c \in Calls : tool[c] = "analyze_file_changes"}

Returned(c) == pc[c] = "done"

Payload(c) == json_loads(result[c])

IsErrorRecord(c) == DOMAIN Payload(c) = {"error"}

AnalysisFields ==
    {"base_branch", "files_changed", "statistics", "commits", "diff",
     "truncated", "total_diff_lines", "_debug"}

IsAnalysis(c) == DOMAIN Payload(c) = AnalysisFields

\* The logged runs of call c whose command line is argv.
Runs(c, argv) == {i \in 1..Len(queries[c]) : queries[c][i].argv = argv}

\* The full diff queries call c has issued, for any range.
FullDiffRuns(c) ==
    {i \in 1..Len(queries[c]) :
        /\ queries[c][i].argv[2] = "diff"
        /\ Len(queries[c][i].argv) = 3}

\* The diff field of call c is the first min(L, N) lines of the output of
\* its diff query, with the notice citing N and L exactly when L > N.
C1_FirstLines(c) ==
    LET N == args[c].max_diff_lines
        out == queries[c][CHOOSE i \in FullDiffRuns(c) : TRUE].run.stdout
        lines == splitlines(out)
        L == Len(lines)
        r == Payload(c)
        notice == <<"\n", "\n",
                    "... Output truncated. Showing " \o ToString(N) \o " of "
                        \o ToString(L) \o " lines ...",
                    "\n",
                    "... Use max_diff_lines parameter to see more ...">>
    IN  /\ r.total_diff_lines = L
        /\ r.truncated = (L > N)
        /\ IF L > N
           THEN r.diff = join("\n", SubSeq(lines, 1, Min(L, N))) \o notice
           ELSE splitlines(r.diff) = lines

(***************************************************************************)
(* C1. With include_diff true, for every integer max_diff_lines = N and    *)
(* every diff output of L lines: total_diff_lines = L, truncated = (L > N),*)
(* and the diff field is exactly the first min(L, N) lines of the output,  *)
(* in order, followed by the notice citing N and L if and only if          *)
(* truncated.                                                              *)
(***************************************************************************)
C1_Truncation ==
    \A c \in AnalyzeCalls :
        (Returned(c) /\ IsAnalysis(c) /\ args[c].include_diff) => C1_FirstLines(c)

\* The same statement for the limits that count lines: N >= 0.
C1_TruncationForNaturalLimits ==
    \A c \in AnalyzeCalls :
        (Returned(c) /\ IsAnalysis(c) /\ args[c].include_diff
            /\ args[c].max_diff_lines >= 0) => C1_FirstLines(c)

(***************************************************************************)
(* C2. When a git command fails (it exits with a failure status), the call *)
(* returns a payload that carries an error field.                          *)
(***************************************************************************)
C2_FailedCommandIsError ==
    \A c \in AnalyzeCalls :
        (/\ Returned(c)
         /\ \E i \in 1..Len(queries[c]) :
               /\ queries[c][i].run.raised = ""
               /\ queries[c][i].run.returncode # 0)
        => "error" \in DOMAIN Payload(c)

(***************************************************************************)
(* C3, as stated. Any fault raised at any step of analyze_file_changes is  *)
(* returned as a record holding exactly the field error.                   *)
(***************************************************************************)
C3_AnyFaultIsError ==
    \A c \in AnalyzeCalls :
        (Returned(c) /\ faults[c] # {}) => IsErrorRecord(c)

\* The faults of call c that the inner handler of the root lookup does not
\* catch.
OuterFaults(c) == faults[c] \ {"list_roots"}

(***************************************************************************)
(* C3, amended. Any fault raised at a step other than the session-root     *)
(* lookup ends the call with a record holding exactly the field error; a   *)
(* call that returns without such a fault returns the complete analysis    *)
(* record; a fault never leaves the call without a payload.                *)
(***************************************************************************)
C3_OuterFaultIsError ==
    \A c \in AnalyzeCalls :
        /\ OuterFaults(c) # {} => (Returned(c) /\ IsErrorRecord(c))
        /\ (Returned(c) /\ OuterFaults(c) = {}) => IsAnalysis(c)

\* The diff query raises after two queries have run: the two captured
\* outputs are dropped and the call returns the error record.
C3_Witness ==
    \E c \in AnalyzeCalls :
        /\ Returned(c)
        /\ faults[c] = {"diff"}
        /\ Len(queries[c]) = 3
        /\ IsErrorRecord(c)

(***************************************************************************)
(* C4. With include_diff false the full diff query is never issued, and    *)
(* the record returned has the placeholder as its diff, truncated false    *)
(* and total_diff_lines 0, whatever max_diff_lines is.                     *)
(***************************************************************************)
C4_NoDiffQuery ==
    \A c \in AnalyzeCalls :
        ~args[c].include_diff =>
            /\ FullDiffRuns(c) = {}
            /\ (Returned(c) /\ ~IsErrorRecord(c)) =>
                  /\ IsAnalysis(c)
                  /\ Payload(c).diff =
                        <<"Diff not included (set include_diff=true to see full diff)">>
                  /\ Payload(c).truncated = FALSE
                  /\ Payload(c).total_diff_lines = 0

\* A call without the diff, with limit 0, in a repository whose diff is not
\* empty, returns after three queries.
C4_Witness ==
    \E c \in AnalyzeCalls :
        /\ ~args[c].include_diff
        /\ args[c].max_diff_lines = 0
        /\ Len(splitlines(diff_stdout)) > 0
        /\ Returned(c)
        /\ IsAnalysis(c)
        /\ Len(queries[c]) = 3

\* The chain with "given" read as "not None".
C9_GivenChain(c) ==
    IF args[c].working_directory # None THEN args[c].working_directory
    ELSE IF session_root \notin {LookupFault, None, ""} THEN session_root
    ELSE process_cwd

\* Call c consults the root only when nothing was supplied, runs every query
\* in `directory`, reports it, and survives a failed lookup.
C9_Resolution(c, directory) ==
    /\ roots_asked[c] => args[c].working_directory = None
    /\ \A i \in 1..Len(queries[c]) : queries[c][i].cwd = directory
    /\ (Returned(c) /\ IsAnalysis(c)) => Payload(c)._debug.cwd = directory
    /\ (Returned(c) /\ faults[c] = {"list_roots"}) => IsAnalysis(c)

(***************************************************************************)
(* C9, as stated. The directory is the supplied working_directory if one   *)
(* is given, else the session's declared root, else (the lookup failing or *)
(* yielding nothing) the process's working directory; the lookup is made   *)
(* only when no directory is supplied, its failure never gives an error    *)
(* record, every query runs in that directory and the record reports it.   *)
(***************************************************************************)
C9_ChainAsStated ==
    \A c \in AnalyzeCalls : C9_Resolution(c, C9_GivenChain(c))

\* The chain with "given" read as "neither None nor empty".
C9_NonEmptyChain(c) ==
    IF args[c].working_directory \notin {None, ""} THEN args[c].working_directory
    ELSE IF args[c].working_directory = None
            /\ session_root \notin {LookupFault, None, ""}
         THEN session_root
    ELSE process_cwd

(***************************************************************************)
(* C9, amended. The directory is the supplied working_directory if a       *)
(* non-empty one is given; if none is supplied, the session's declared     *)
(* root when the lookup yields a non-empty path; in every other case (the  *)
(* lookup fails or yields nothing, or an empty string was supplied) the    *)
(* process's working directory. The rest is as stated.                     *)
(***************************************************************************)
C9_ChainForNonEmpty ==
    \A c \in AnalyzeCalls : C9_Resolution(c, C9_NonEmptyChain(c))

\* The lookup raises, the call goes on in the process's directory and
\* returns an analysis record that reports it.
C9_Witness ==
    \E c \in AnalyzeCalls :
        /\ args[c].working_directory = None
        /\ faults[c] = {"list_roots"}
        /\ Returned(c)
        /\ IsAnalysis(c)
        /\ Payload(c)._debug.cwd = process_cwd
        /\ Len(queries[c]) = 4

\* Call c ran the command line argv exactly once; what it printed.
C10_Once(c, argv) == Cardinality(Runs(c, argv)) = 1

C10_Output(c, argv) == queries[c][CHOOSE i \in Runs(c, argv) : TRUE].run.stdout

SameLetter(ch, low) ==
    \/ ch = low
    \/ \E i \in 1..Len(LowerCase) : LowerCase[i] = low /\ UpperCase[i] = ch

VariantOf(s, k) ==
    \E first \in 1..(Len(s) + 1) :
        LET last == first + Len(k) - 1
        IN  /\ last <= Len(s)
            /\ \A p \in 1..(first - 1) : s[p] \in {" ", "\t", "\n", "\r", "\f"}
            /\ \A p \in (last + 1)..Len(s) : s[p] \in {" ", "\t", "\n", "\r", "\f"}
            /\ \A p \in 1..Len(k) : SameLetter(s[first + p - 1], k[p])

\* The filename the synonym table gives a change_type, by VariantOf.
ExpectedTemplate(change_type) ==
    IF \E i \in 1..Len(TypeMapping) : VariantOf(change_type, TypeMapping[i][1])
    THEN TypeMapping[CHOOSE i \in 1..Len(TypeMapping) :
                        VariantOf(change_type, TypeMapping[i][1])][2]
    ELSE "feature.md"

SuggestCalls == {c \in Calls : tool[c] = "suggest_template"}

(***************************************************************************)
(* C5. The classification of a change_type is always a filename of the     *)
(* catalog; a synonym in any mix of cases with any whitespace around it is *)
(* classified as the synonym itself is; every other string is classified   *)
(* as feature.md.                                                          *)
(***************************************************************************)
C5_Classification ==
    \A c \in SuggestCalls :
        Returned(c) =>
            LET change_type == args[c].change_type
                template_file == locals[c].template_file
            IN  /\ \E i \in 1..Len(DefaultTemplates) :
                      DefaultTemplates[i][1] = template_file
                /\ \A i \in 1..Len(TypeMapping) :
                      VariantOf(change_type, TypeMapping[i][1])
                          => template_file = TypeMapping[i][2]
                /\ (\A i \in 1..Len(TypeMapping) :
                      ~VariantOf(change_type, TypeMapping[i][1]))
                          => template_file = "feature.md"

\* "\tFIX " is classified as "fix" is.
C5_Witness ==
    \E c \in SuggestCalls :
        /\ Returned(c)
        /\ args[c].change_type = <<"\t", "F", "I", "X", " ">>
        /\ locals[c].template_file = "bug.md"

(***************************************************************************)
(* C6. The recommended_template of suggest_template is the catalog entry   *)
(* whose filename is the classification of change_type: the fallback to    *)
(* the first entry is never taken, an unrecognized change_type gets the    *)
(* feature.md entry, and the reasoning holds change_summary and            *)
(* change_type as supplied.                                                *)
(***************************************************************************)
C6_Recommended ==
    \A c \in SuggestCalls :
        Returned(c) =>
            LET r == Payload(c)
                f == ExpectedTemplate(args[c].change_type)
            IN  /\ \E i \in 1..Len(locals[c].templates) :
                      locals[c].templates[i].filename = locals[c].template_file
                /\ r.recommended_template.filename = f
                /\ r.recommended_template.type = Get(DefaultTemplates, f, "?")
                /\ r.recommended_template.content =
                      (IF template_files[f] = Unreadable THEN "" ELSE template_files[f])
                /\ r.template_content = r.recommended_template.content
                /\ r.reasoning[2] = args[c].changes_summary
                /\ r.reasoning[4] = args[c].change_type

\* An unrecognized change_type gets the feature.md entry, which is not the
\* first of the catalog.
C6_Witness ==
    \E c \in SuggestCalls :
        /\ Returned(c)
        /\ args[c].change_type = <<"c","h","o","r","e">>
        /\ Payload(c).recommended_template.filename = "feature.md"
        /\ Payload(c).recommended_template.content = "## feature.md checklist"
        /\ Payload(c).reasoning[4] = <<"c","h","o","r","e">>

(***************************************************************************)
(* C7. get_pr_templates returns the 7 entries bug, feature, docs,          *)
(* refactor, test, performance, security, in this order, in every state of *)
(* the template directory; the entry of a file that cannot be read has     *)
(* empty content, and every other entry has its file's content.            *)
(***************************************************************************)
C7_SevenEntries ==
    \A c \in Calls :
        (tool[c] = "get_pr_templates" /\ Returned(c)) =>
            LET t == Payload(c)
            IN  /\ Len(t) = 7
                /\ [i \in 1..Len(t) |-> t[i].filename] =
                      <<"bug.md", "feature.md", "docs.md", "refactor.md",
                        "test.md", "performance.md", "security.md">>
                /\ [i \in 1..Len(t) |-> t[i].type] =
                      <<"Bug Fix", "Feature", "Documentation", "Refactor",
                        "Test", "Performance", "Security">>
                /\ \A i \in 1..Len(t) :
                      /\ DOMAIN t[i] = {"filename", "type", "content"}
                      /\ t[i].content =
                            (IF template_files[t[i].filename] = Unreadable
                             THEN ""
                             ELSE template_files[t[i].filename])

\* docs.md and test.md cannot be read, the other five can.
C7_Witness ==
    \E c \in Calls :
        /\ tool[c] = "get_pr_templates"
        /\ Returned(c)
        /\ {f \in Filenames : template_files[f] = Unreadable} = {"docs.md", "test.md"}
        /\ Len(Payload(c)) = 7
        /\ Payload(c)[3].content = ""
        /\ Payload(c)[4].content = "## refactor.md checklist"

(***************************************************************************)
(* C8. Whatever the interleaving of two calls, no call changes the two     *)
(* tables, and each call returns what it returns when run alone in the     *)
(* same repository, template directory and session.                        *)
(***************************************************************************)
C8_Independent ==
    /\ DEFAULT_TEMPLATES = DefaultTemplates
    /\ TYPE_MAPPING = TypeMapping
    /\ \A c \in Calls :
          Returned(c) =>
              LET alone == json_loads(RunAlone(tool[c], args[c]))
              IN  /\ DOMAIN Payload(c) = DOMAIN alone
                  /\ Payload(c) = alone

\* Both calls have returned, and one ran between the steps of the other.
C8_Witness ==
    /\ overlapped
    /\ \A c \in Calls : Returned(c)
    /\ tool[1] = "analyze_file_changes"
    /\ args[1].working_directory = None
    /\ IsAnalysis(1)
    /\ tool[2] = "suggest_template"

====
